---- MODULE Spec2Model ----
(***************************************************************************)
(* Model of datafusion/row/src/writer.rs: the RowWriter byte buffer, the   *)
(* per-type field writers, write_row, and the two batch entry points       *)
(* write_batch_unchecked and bench_write_batch.                            *)
(*                                                                         *)
(* Bytes are the integers 0..255, buffers are sequences of bytes.  Rust    *)
(* indices are 0-based; At0 and the slice operators translate them.  A     *)
(* panic (assert!, unwrap on None/Err, slice index out of range,           *)
(* unimplemented!) is the outcome ok = FALSE of an operator, and the       *)
(* position "panicked" of a call.                                          *)
(***************************************************************************)
EXTENDS Integers, Sequences, FiniteSets, TLC

\* ------------------------------------------------------------------ bounds

\* Most rows in one RecordBatch.
MaxRows == 3
\* Most rows in one RecordBatch handed to bench_write_batch.
MaxBenchRows == 1
\* Most calls made on a RowWriter driven directly through its methods.
MaxOps == 2

\* ------------------------------------------------------------ byte helpers

At0(s, i) == s[i + 1]

Zeros(n) == [i \in 1..n |-> 0]

\* s[a..b] of Rust (0-based, half open); only used where 0 <= a <= b <= Len(s).
Slice(s, a, b) == [i \in 1..(b - a) |-> s[a + i]]

\* Whether the range a..b indexes a slice of length n (core::slice::index).
RangeOk(n, a, b) == a <= b /\ b <= n

\* dst[a..a+Len(src)].copy_from_slice(src), for a range that RangeOk accepts.
copy_from_slice(dst, a, src) ==
    [i \in 1..Len(dst) |->
        IF i > a /\ i <= a + Len(src) THEN src[i - a] ELSE dst[i]]

\* Mutant of to_le_bytes: most significant byte first.
RECURSIVE to_be_bytes(_, _)
to_be_bytes(v, w) ==
    IF w = 0 THEN <<>> ELSE to_be_bytes(v \div 256, w - 1) \o <<v % 256>>

\* <int>::to_le_bytes for an integer of w bytes: two's complement, least
\* significant byte first.  \div and % round towards minus infinity, as an
\* arithmetic shift does, so a negative value yields its sign extension.
RECURSIVE to_le_bytes(_, _)
to_le_bytes(v, w) ==
    IF w = 0 THEN <<>> ELSE <<v % 256>> \o to_le_bytes(v \div 256, w - 1)

\* arrow::util::bit_util::set_bit_raw / unset_bit_raw on byte b, bit k.
RECURSIVE Pow2(_)
Pow2(k) == IF k = 0 THEN 1 ELSE 2 * Pow2(k - 1)

GetBit(b, k) == (b \div Pow2(k)) % 2 = 1

set_bit_raw(data, i) ==
    LET b == data[(i \div 8) + 1] IN
    [data EXCEPT ![(i \div 8) + 1] =
        IF GetBit(b, i % 8) THEN b ELSE b + Pow2(i % 8)]

unset_bit_raw(data, i) ==
    LET b == data[(i \div 8) + 1] IN
    [data EXCEPT ![(i \div 8) + 1] =
        IF GetBit(b, i % 8) THEN b - Pow2(i % 8) ELSE b]

\* --------------------------------------------------------------- data types

\* The logical types write_field dispatches on; Utf8 stands for every type
\* outside the closed set.
SupportedTypes ==
    {"Boolean", "UInt8", "UInt16", "UInt32", "UInt64", "Int8", "Int16",
     "Int32", "Int64", "Float32", "Float64", "Date32", "Date64", "Decimal128"}

\* Width of the slice each typed setter writes ($WIDTH of set_idx!/fn_set_idx!).
TypeWidth(dt) ==
    CASE dt \in {"Boolean", "UInt8", "Int8"} -> 1
      [] dt \in {"UInt16", "Int16"} -> 2
      [] dt \in {"UInt32", "Int32", "Float32", "Date32"} -> 4
      [] dt \in {"UInt64", "Int64", "Float64", "Date64"} -> 8
      [] dt = "Decimal128" -> 16
      [] OTHER -> 0

\* The little-endian bytes a typed setter stores for a native value.  A bool
\* goes through u8::from; a float is held as its IEEE-754 bit pattern.
ValueBytes(dt, v) ==
    IF dt = "Boolean" THEN <<IF v THEN 1 ELSE 0>> ELSE to_le_bytes(v, TypeWidth(dt))

\* ------------------------------------------------------------------- layout

WordSize == 8

RECURSIVE SumWidths(_, _)
SumWidths(schema, n) ==
    IF n = 0 THEN 0 ELSE SumWidths(schema, n - 1) + TypeWidth(schema[n].dt)

RoundUp(n, a) == ((n + a - 1) \div a) * a

\* RowLayout::new(schema): null_free iff no field is nullable, the bitmap of
\* one bit per field in front unless null_free, the fields packed behind it in
\* schema order, and the total rounded up to the word size.
RowLayout_new(schema) ==
    LET n == Len(schema)
        nf == \A i \in 1..n : ~schema[i].nullable
        nw == IF nf THEN 0 ELSE (n + 7) \div 8
    IN [null_free |-> nf,
        null_width |-> nw,
        field_count |-> n,
        field_offsets |-> [i \in 1..n |-> nw + SumWidths(schema, i - 1)],
        fixed_part_width |-> RoundUp(nw + SumWidths(schema, n), WordSize)]

\* ---------------------------------------------------------------- RowWriter

RowWriter_new(schema) ==
    LET layout == RowLayout_new(schema) IN
    [layout |-> layout,
     data |-> Zeros(layout.fixed_part_width),
     row_width |-> layout.fixed_part_width]

\* Mutant of reset: the buffer keeps the previous row's bytes.
reset_no_fill(w) == [w EXCEPT !.row_width = w.layout.fixed_part_width]

\* Mutant of reset: row_width falls back to the width of the bitmap.
reset_width_lost(w) ==
    [w EXCEPT !.data = Zeros(Len(w.data)), !.row_width = w.layout.null_width]

reset(w) ==
    [w EXCEPT !.data = Zeros(Len(w.data)),
              !.row_width = w.layout.fixed_part_width]

\* The result of a method that may panic.
Ok(w) == [ok |-> TRUE, w |-> w]
Panic(w) == [ok |-> FALSE, w |-> w]

set_null_at(w, idx) ==
    IF w.layout.null_free THEN Panic(w)
    ELSE Ok([w EXCEPT !.data = unset_bit_raw(w.data, idx)])

\* Mutant of set_non_null_at: clears the bit instead of setting it.
set_non_null_at_unset(w, idx) ==
    IF w.layout.null_free THEN Panic(w)
    ELSE Ok([w EXCEPT !.data = unset_bit_raw(w.data, idx)])

set_non_null_at(w, idx) ==
    IF w.layout.null_free THEN Panic(w)
    ELSE Ok([w EXCEPT !.data = set_bit_raw(w.data, idx)])

\* set_<T>(idx, value): assert_index_valid, then
\* data[offset..offset + WIDTH].copy_from_slice(&value.to_le_bytes()).
set_idx(w, idx, dt, v) ==
    IF ~(idx < w.layout.field_count) THEN Panic(w)
    ELSE LET offset == At0(w.layout.field_offsets, idx) IN
         IF ~RangeOk(Len(w.data), offset, offset + TypeWidth(dt)) THEN Panic(w)
         ELSE Ok([w EXCEPT !.data = copy_from_slice(w.data, offset, ValueBytes(dt, v))])

get_row(w) == Slice(w.data, 0, w.row_width)

\* ------------------------------------------------------------ field writers

\* write_field_<native> of fn_write_field!: downcast_ref::<$ARRAY>().unwrap()
\* panics unless the column's array type is the declared one; value(row_idx)
\* panics past the end of the array.
write_field_native(to, from, col_idx, row_idx, dt) ==
    IF from.rt # dt \/ ~(row_idx < Len(from.vals)) THEN Panic(to)
    ELSE set_idx(to, col_idx, dt, At0(from.vals, row_idx))

\* write_field_date32: Err(e) => panic!("{e}").
write_field_date32(to, from, col_idx, row_idx) ==
    IF from.rt # "Date32" \/ ~(row_idx < Len(from.vals)) THEN Panic(to)
    ELSE set_idx(to, col_idx, "Date32", At0(from.vals, row_idx))

\* write_field_date64: as_date64_array(from).unwrap().
write_field_date64(to, from, col_idx, row_idx) ==
    IF from.rt # "Date64" \/ ~(row_idx < Len(from.vals)) THEN Panic(to)
    ELSE set_idx(to, col_idx, "Date64", At0(from.vals, row_idx))

\* write_field_decimal128: as_decimal128_array(from).unwrap().
write_field_decimal128(to, from, col_idx, row_idx) ==
    IF from.rt # "Decimal128" \/ ~(row_idx < Len(from.vals)) THEN Panic(to)
    ELSE set_idx(to, col_idx, "Decimal128", At0(from.vals, row_idx))

\* write_field: the closed dispatch on the declared type; `_ => unimplemented!()`.
write_field(col_idx, row_idx, col, dt, row) ==
    CASE dt = "Date32" -> write_field_date32(row, col, col_idx, row_idx)
      [] dt = "Date64" -> write_field_date64(row, col, col_idx, row_idx)
      [] dt = "Decimal128" -> write_field_decimal128(row, col, col_idx, row_idx)
      [] dt \in SupportedTypes \ {"Date32", "Date64", "Decimal128"} ->
            write_field_native(row, col, col_idx, row_idx, dt)
      [] OTHER -> Panic(row)

\* ---------------------------------------------------------------- write_row

Min(a, b) == IF a < b THEN a ELSE b

\* The null-free loop: every field is written, no null check.
RECURSIVE write_row_null_free(_, _, _, _, _)
\* Mutant of write_row_null_free: the loop stops one field early.
write_row_null_free_skip_last(r, i, row_idx, schema, columns) ==
    IF ~r.ok \/ i + 1 >= Min(Len(schema), Len(columns)) THEN r
    ELSE write_row_null_free(
             write_field(i, row_idx, At0(columns, i), At0(schema, i).dt, r.w),
             i + 1, row_idx, schema, columns)

write_row_null_free(r, i, row_idx, schema, columns) ==
    IF ~r.ok \/ i >= Min(Len(schema), Len(columns)) THEN r
    ELSE write_row_null_free(
             write_field(i, row_idx, At0(columns, i), At0(schema, i).dt, r.w),
             i + 1, row_idx, schema, columns)

\* One iteration of the nullable loop for field i.
write_row_nullable_field(w, i, row_idx, schema, columns) ==
    IF At0(At0(columns, i).valid, row_idx)
    THEN LET a == set_non_null_at(w, i) IN
         IF ~a.ok THEN a
         ELSE write_field(i, row_idx, At0(columns, i), At0(schema, i).dt, a.w)
    ELSE set_null_at(w, i)

RECURSIVE write_row_nullable(_, _, _, _, _)
write_row_nullable(r, i, row_idx, schema, columns) ==
    IF ~r.ok \/ i >= Min(Len(schema), Len(columns)) THEN r
    ELSE write_row_nullable(
             write_row_nullable_field(r.w, i, row_idx, schema, columns),
             i + 1, row_idx, schema, columns)

\* write_row: [ok, w, width]; width is row_writer.row_width.
write_row(row_writer, row_idx, schema, columns) ==
    LET r == IF row_writer.layout.null_free
             THEN write_row_null_free(Ok(row_writer), 0, row_idx, schema, columns)
             ELSE write_row_nullable(Ok(row_writer), 0, row_idx, schema, columns)
    IN [ok |-> r.ok, w |-> r.w, width |-> r.w.row_width]

\* ------------------------------------------------------------------- inputs

F(dt, nullable) == [dt |-> dt, nullable |-> nullable]
V(v) == [null |-> FALSE, v |-> v]
\* A null entry; the values buffer holds the type's default behind it.
N0 == [null |-> TRUE, v |-> 0]
NF == [null |-> TRUE, v |-> FALSE]

\* The schemas, the array type of each column, and the candidate rows of the
\* batches.  In the first six the arrays are of the declared types; in the
\* last three a date or decimal field is backed by an array of another type.
Cases ==
    << [schema |-> <<F("Int32", FALSE)>>,
        coltypes |-> <<"Int32">>,
        rows |-> << <<V(1)>>, <<V(2)>>, <<V(3)>> >>],
       [schema |-> <<F("Int32", TRUE)>>,
        coltypes |-> <<"Int32">>,
        rows |-> << <<V(1)>>, <<N0>>, <<V(-2)>> >>],
       [schema |-> <<F("Boolean", FALSE), F("Int32", FALSE), F("Int64", TRUE)>>,
        coltypes |-> <<"Boolean", "Int32", "Int64">>,
        rows |-> << <<V(TRUE), V(42), N0>>,
                    <<V(FALSE), V(-2), V(-1)>>,
                    <<V(TRUE), V(3), V(258)>> >>],
       [schema |-> <<F("Int8", FALSE), F("Date32", FALSE)>>,
        coltypes |-> <<"Int8", "Date32">>,
        rows |-> << <<V(-1), V(19000)>>, <<V(5), V(-1)>>, <<V(0), V(0)>> >>],
       [schema |-> <<F("Date64", TRUE), F("Decimal128", TRUE)>>,
        coltypes |-> <<"Date64", "Decimal128">>,
        rows |-> << <<V(86400000), V(-2)>>, <<N0, V(65536)>>, <<V(-1), N0>> >>],
       [schema |-> <<F("UInt16", TRUE), F("Boolean", TRUE), F("Float32", FALSE)>>,
        coltypes |-> <<"UInt16", "Boolean", "Float32">>,
        rows |-> << <<V(513), NF, V(1065353216)>>,
                    <<N0, V(TRUE), V(0)>>,
                    <<V(65535), V(FALSE), V(1073741824)>> >>],
       [schema |-> <<F("Date32", TRUE)>>,
        coltypes |-> <<"Int32">>,
        rows |-> << <<N0>>, <<V(7)>> >>],
       [schema |-> <<F("Int32", FALSE), F("Decimal128", FALSE)>>,
        coltypes |-> <<"Int32", "Int64">>,
        rows |-> << <<V(1), V(2)>> >>],
       [schema |-> <<F("Date64", TRUE)>>,
        coltypes |-> <<"Int64">>,
        rows |-> << <<V(-1)>>, <<N0>> >>] >>

\* The RecordBatch whose rows are the candidate rows pick[1], pick[2], ... of c.
BatchOf(c, pick) ==
    [num_rows |-> Len(pick),
     columns |-> [j \in 1..Len(c.coltypes) |->
                    [rt |-> c.coltypes[j],
                     vals |-> [r \in 1..Len(pick) |-> c.rows[pick[r]][j].v],
                     valid |-> [r \in 1..Len(pick) |-> ~c.rows[pick[r]][j].null]]]]

Batches(c, maxRows) ==
    {BatchOf(c, pick) : pick \in UNION {[1..n -> 1..Len(c.rows)] : n \in 0..maxRows}}

\* Lengths of the output slice, start offsets and start rows of a call.
OutLens == {12, 24, 52}
Offsets == {0, 4}
StartRows == {0, 2}

\* The shapes of the &[Vec<RecordBatch>] handed to bench_write_batch: the
\* length of each inner vector.
BenchShapes == {<<>>, <<1>>, <<2>>, <<1, 1>>, <<0, 1>>}

BenchInputs(c) ==
    UNION {{[i \in 1..Len(sh) |-> [k \in 1..sh[i] |-> bs[i][k]]] :
               bs \in [1..Len(sh) -> [1..2 -> Batches(c, MaxBenchRows)]]} :
           sh \in BenchShapes}

EmptyBatch == [num_rows |-> 0, columns |-> <<>>]

\* batches.iter().flatten()
RECURSIVE Flatten(_)
Flatten(ss) == IF ss = <<>> THEN <<>> ELSE Head(ss) \o Flatten(Tail(ss))

\* -------------------------------------------------------------------- state

\* output: the shared byte region the callers own.
\* pass:   the calls in progress; pass[p] holds the arguments and the locals
\*         of call p and its position pc.
VARIABLES output, pass

vars == <<output, pass>>

\* The bytes a caller's pre-sized region holds before any call.
InitialOutput(n) == [i \in 1..n |-> 170]

\* The state of a call on entry: the writer constructed, the locals set.
NewPass(call, schema, batch, batches, out_lo, out_len, offset, row_idx) ==
    [call |-> call, schema |-> schema, batch |-> batch, batches |-> batches,
     out_lo |-> out_lo, out_len |-> out_len, offset |-> offset,
     row_idx |-> row_idx,
     writer |-> RowWriter_new(schema),
     current_offset |-> offset,
     offsets |-> <<>>,
     lengths |-> <<>>,
     cur_row |-> row_idx,
     bi |-> 0,
     row_width |-> 0,
     ops |-> 0,
     result |-> "none",
     pc |-> CASE call = "write_batch_unchecked" -> "for"
              [] call = "bench_write_batch" -> "for_batch"
              [] OTHER -> "idle"]

\* ---------------------------------------------------- write_batch_unchecked

\* Each step maps the call's state ps and the region out to [ps, out].
St(ps, out) == [ps |-> ps, out |-> out]

\* for cur_row in row_idx..batch.num_rows(): the loop test; past the last row
\* the call returns offsets.
StepFor(ps, out) ==
    St([ps EXCEPT !.pc = IF ps.cur_row < ps.batch.num_rows
                         THEN "push" ELSE "returned"], out)

\* offsets.push(current_offset)
StepPush(ps, out) ==
    St([ps EXCEPT !.offsets = Append(ps.offsets, ps.current_offset),
                  !.pc = "write"], out)

\* let row_width = write_row(&mut writer, cur_row, &schema, columns)
StepWriteRow(ps, out) ==
    LET r == write_row(ps.writer, ps.cur_row, ps.schema, ps.batch.columns) IN
    IF r.ok
    THEN St([ps EXCEPT !.writer = r.w, !.row_width = r.width, !.pc = "copy"], out)
    ELSE St([ps EXCEPT !.pc = "panicked"], out)

\* Mutant of StepCopy: no range check, the row is copied wherever it lands.
StepCopyUnchecked(ps, out) ==
    St([ps EXCEPT !.pc = "advance"],
       copy_from_slice(out, ps.out_lo + ps.current_offset, get_row(ps.writer)))

\* Mutant of StepCopy: a row that does not fit is copied as far as the slice
\* goes before the panic.
StepCopyPartial(ps, out) ==
    LET a == ps.current_offset
        b == ps.current_offset + ps.row_width
    IN IF ~RangeOk(ps.out_len, a, b)
       THEN St([ps EXCEPT !.pc = "panicked"],
               IF a <= ps.out_len
               THEN copy_from_slice(out, ps.out_lo + a,
                                  Slice(get_row(ps.writer), 0, ps.out_len - a))
               ELSE out)
       ELSE St([ps EXCEPT !.pc = "advance"],
               copy_from_slice(out, ps.out_lo + a, get_row(ps.writer)))

\* Mutant of StepCopy: the offset is taken from the start of the shared region
\* instead of the start of the call's own slice.
StepCopySharedBase(ps, out) ==
    LET a == ps.current_offset
        b == ps.current_offset + ps.row_width
    IN IF ~RangeOk(ps.out_len, a, b)
       THEN St([ps EXCEPT !.pc = "panicked"], out)
       ELSE St([ps EXCEPT !.pc = "advance"],
               copy_from_slice(out, a, get_row(ps.writer)))

\* output[current_offset..current_offset + row_width]
\*     .copy_from_slice(writer.get_row())
\* The range is checked against the slice the call was handed, which starts
\* at out_lo of the region; copy_from_slice panics on a length mismatch.
StepCopy(ps, out) ==
    LET a == ps.current_offset
        b == ps.current_offset + ps.row_width
    IN IF ~RangeOk(ps.out_len, a, b) \/ Len(get_row(ps.writer)) # b - a
       THEN St([ps EXCEPT !.pc = "panicked"], out)
       ELSE St([ps EXCEPT !.pc = "advance"],
               copy_from_slice(out, ps.out_lo + a, get_row(ps.writer)))

\* Mutant of StepAdvance: the cursor is left where it was.
StepAdvanceStale(ps, out) == St([ps EXCEPT !.pc = "reset"], out)

\* current_offset += row_width
StepAdvance(ps, out) ==
    St([ps EXCEPT !.current_offset = ps.current_offset + ps.row_width,
                  !.pc = "reset"], out)

\* writer.reset(), and on to the next row
StepReset(ps, out) ==
    St([ps EXCEPT !.writer = reset(ps.writer),
                  !.cur_row = ps.cur_row + 1,
                  !.pc = "for"], out)

Terminal(ps) == ps.pc \in {"returned", "panicked"}

StepWB(ps, out) ==
    CASE ps.pc = "for" -> StepFor(ps, out)
      [] ps.pc = "push" -> StepPush(ps, out)
      [] ps.pc = "write" -> StepWriteRow(ps, out)
      [] ps.pc = "copy" -> StepCopy(ps, out)
      [] ps.pc = "advance" -> StepAdvance(ps, out)
      [] ps.pc = "reset" -> StepReset(ps, out)
      [] OTHER -> St(ps, out)

\* The whole call, run from ps on out to its return or panic.
RECURSIVE write_batch_unchecked(_, _)
write_batch_unchecked(ps, out) ==
    IF Terminal(ps) THEN St(ps, out)
    ELSE LET s == StepWB(ps, out) IN write_batch_unchecked(s.ps, s.out)

Apply(p, s) ==
    /\ pass' = [pass EXCEPT ![p] = s.ps]
    /\ output' = s.out

IsWB(p) == p \in DOMAIN pass /\ pass[p].call = "write_batch_unchecked"

For(p) == IsWB(p) /\ pass[p].pc = "for" /\ Apply(p, StepFor(pass[p], output))
Push(p) == IsWB(p) /\ pass[p].pc = "push" /\ Apply(p, StepPush(pass[p], output))
WriteRowStep(p) ==
    IsWB(p) /\ pass[p].pc = "write" /\ Apply(p, StepWriteRow(pass[p], output))
Copy(p) == IsWB(p) /\ pass[p].pc = "copy" /\ Apply(p, StepCopy(pass[p], output))
Advance(p) ==
    IsWB(p) /\ pass[p].pc = "advance" /\ Apply(p, StepAdvance(pass[p], output))
ResetStep(p) ==
    IsWB(p) /\ pass[p].pc = "reset" /\ Apply(p, StepReset(pass[p], output))

\* -------------------------------------------------------- bench_write_batch

IsBench(p) == p \in DOMAIN pass /\ pass[p].call = "bench_write_batch"

Flat(ps) == Flatten(ps.batches)

\* for batch in batches.iter().flatten(): past the last batch, Ok(lengths).
BenchForBatch(p) ==
    /\ IsBench(p) /\ pass[p].pc = "for_batch"
    /\ pass' = [pass EXCEPT ![p] =
          IF pass[p].bi < Len(Flat(pass[p]))
          THEN [pass[p] EXCEPT !.batch = At0(Flat(pass[p]), pass[p].bi),
                               !.cur_row = 0, !.pc = "for_row"]
          ELSE [pass[p] EXCEPT !.result = "Ok", !.pc = "returned"]]
    /\ UNCHANGED output

\* for cur_row in 0..batch.num_rows()
BenchForRow(p) ==
    /\ IsBench(p) /\ pass[p].pc = "for_row"
    /\ pass' = [pass EXCEPT ![p] =
          IF pass[p].cur_row < pass[p].batch.num_rows
          THEN [pass[p] EXCEPT !.pc = "write"]
          ELSE [pass[p] EXCEPT !.bi = pass[p].bi + 1, !.pc = "for_batch"]]
    /\ UNCHANGED output

\* let row_width = write_row(&mut writer, cur_row, &schema, columns)
BenchWriteRow(p) ==
    /\ IsBench(p) /\ pass[p].pc = "write"
    /\ Apply(p, StepWriteRow(pass[p], output))

\* lengths.push(row_width); the position after write_row is named "copy" in
\* both calls.
BenchPush(p) ==
    /\ IsBench(p) /\ pass[p].pc = "copy"
    /\ pass' = [pass EXCEPT ![p] =
          [pass[p] EXCEPT !.lengths = Append(pass[p].lengths, pass[p].row_width),
                          !.pc = "reset"]]
    /\ UNCHANGED output

\* writer.reset()
BenchReset(p) ==
    /\ IsBench(p) /\ pass[p].pc = "reset"
    /\ pass' = [pass EXCEPT ![p] =
          [pass[p] EXCEPT !.writer = reset(pass[p].writer),
                          !.cur_row = pass[p].cur_row + 1,
                          !.pc = "for_row"]]
    /\ UNCHANGED output

\* ------------------------------------------- a RowWriter driven by its methods

IsApi(p) ==
    p \in DOMAIN pass /\ pass[p].call = "row_writer" /\ pass[p].pc = "idle"

\* The outcome r of a method on the writer of call p.
ApiDone(p, r) ==
    /\ pass' = [pass EXCEPT ![p] =
          [pass[p] EXCEPT !.writer = r.w,
                          !.ops = pass[p].ops + 1,
                          !.pc = IF r.ok THEN "idle" ELSE "panicked"]]
    /\ UNCHANGED output

ApiTypes == {"Boolean", "Int32", "Decimal128"}
ApiValue(dt, k) == IF dt = "Boolean" THEN k = 1 ELSE k * 258 - 1

ApiSet(p) ==
    /\ IsApi(p) /\ pass[p].ops < MaxOps
    /\ \E idx \in 0..pass[p].writer.layout.field_count, dt \in ApiTypes, k \in 0..1 :
          ApiDone(p, set_idx(pass[p].writer, idx, dt, ApiValue(dt, k)))

ApiSetNullAt(p) ==
    /\ IsApi(p) /\ pass[p].ops < MaxOps
    /\ \E idx \in 0..(pass[p].writer.layout.field_count - 1) :
          ApiDone(p, set_null_at(pass[p].writer, idx))

ApiSetNonNullAt(p) ==
    /\ IsApi(p) /\ pass[p].ops < MaxOps
    /\ \E idx \in 0..(pass[p].writer.layout.field_count - 1) :
          ApiDone(p, set_non_null_at(pass[p].writer, idx))

ApiReset(p) ==
    /\ IsApi(p) /\ pass[p].ops < MaxOps
    /\ ApiDone(p, Ok(reset(pass[p].writer)))

\* write_row on the writer as it stands; the width it returns is appended to
\* lengths.
ApiWriteRow(p) ==
    /\ IsApi(p) /\ pass[p].ops < MaxOps
    /\ \E row_idx \in 0..(pass[p].batch.num_rows - 1) :
          LET r == write_row(pass[p].writer, row_idx, pass[p].schema,
                            pass[p].batch.columns) IN
          /\ pass' = [pass EXCEPT ![p] =
                [pass[p] EXCEPT !.writer = r.w,
                                !.lengths = Append(pass[p].lengths, r.width),
                                !.cur_row = row_idx,
                                !.ops = pass[p].ops + 1,
                                !.pc = IF r.ok THEN "idle" ELSE "panicked"]]
          /\ UNCHANGED output

\* ------------------------------------------------------------ specifications

\* write_batch_unchecked is handed the n bytes in the middle of a region that
\* holds Adjacent bytes of other data on either side.
Adjacent == 8

InitWB ==
    \E i \in 1..Len(Cases) :
    \E batch \in Batches(Cases[i], MaxRows) :
    \E n \in OutLens, offset \in Offsets, row_idx \in StartRows :
       /\ output = InitialOutput(Adjacent + n + Adjacent)
       /\ pass = [p \in {1} |->
             NewPass("write_batch_unchecked", Cases[i].schema, batch, <<>>,
                     Adjacent, n, offset, row_idx)]

InitBench ==
    \E i \in 1..Len(Cases) :
    \E batches \in BenchInputs(Cases[i]) :
       /\ output = <<>>
       /\ pass = [p \in {1} |->
             NewPass("bench_write_batch", Cases[i].schema, EmptyBatch, batches,
                     0, 0, 0, 0)]

InitApi ==
    \E i \in 1..Len(Cases) :
       /\ output = <<>>
       /\ pass = [p \in {1} |->
             NewPass("row_writer", Cases[i].schema,
                     BatchOf(Cases[i], [r \in 1..Len(Cases[i].rows) |-> r]),
                     <<>>, 0, 0, 0, 0)]

Init == InitWB \/ InitBench \/ InitApi

\* The calls a state may hold.
PassIds == {1, 2}

Next ==
    \/ \E p \in PassIds : For(p)
    \/ \E p \in PassIds : Push(p)
    \/ \E p \in PassIds : WriteRowStep(p)
    \/ \E p \in PassIds : Copy(p)
    \/ \E p \in PassIds : Advance(p)
    \/ \E p \in PassIds : ResetStep(p)
    \/ \E p \in PassIds : BenchForBatch(p)
    \/ \E p \in PassIds : BenchForRow(p)
    \/ \E p \in PassIds : BenchWriteRow(p)
    \/ \E p \in PassIds : BenchPush(p)
    \/ \E p \in PassIds : BenchReset(p)
    \/ \E p \in PassIds : ApiSet(p)
    \/ \E p \in PassIds : ApiSetNullAt(p)
    \/ \E p \in PassIds : ApiSetNonNullAt(p)
    \/ \E p \in PassIds : ApiReset(p)
    \/ \E p \in PassIds : ApiWriteRow(p)

Spec == Init /\ [][Next]_vars

\* Two passes of write_batch_unchecked, each with a RowWriter of its own, on
\* the two halves [0, ParLen) and [ParLen, 2 * ParLen) of one region (what
\* split_at_mut hands to two threads); their steps interleave freely.
MaxParRows == 2
ParLen == 20
ParCases == {2, 3}

ParBatches(c) ==
    {BatchOf(c, pick) : pick \in UNION {[1..n -> 1..2] : n \in 0..MaxParRows}}

InitPar ==
    \E i1 \in ParCases, i2 \in ParCases :
    \E b1 \in ParBatches(Cases[i1]), b2 \in ParBatches(Cases[i2]) :
    \E o1 \in Offsets, o2 \in {0} :
       /\ output = InitialOutput(2 * ParLen)
       /\ pass = [p \in {1, 2} |->
             IF p = 1
             THEN NewPass("write_batch_unchecked", Cases[i1].schema, b1, <<>>,
                          0, ParLen, o1, 0)
             ELSE NewPass("write_batch_unchecked", Cases[i2].schema, b2, <<>>,
                          ParLen, ParLen, o2, 0)]

NextPar ==
    \/ \E p \in PassIds : For(p)
    \/ \E p \in PassIds : Push(p)
    \/ \E p \in PassIds : WriteRowStep(p)
    \/ \E p \in PassIds : Copy(p)
    \/ \E p \in PassIds : Advance(p)
    \/ \E p \in PassIds : ResetStep(p)

SpecPar == InitPar /\ [][NextPar]_vars

\* ------------------------------------------------------------------- claims

Width(ps) == RowLayout_new(ps.schema).fixed_part_width

\* The number of rows a call of write_batch_unchecked is asked to encode.
K(ps) == IF ps.row_idx >= ps.batch.num_rows THEN 0
         ELSE ps.batch.num_rows - ps.row_idx

\* The slice handed to the call holds every one of those rows from offset on.
Fits(ps) == K(ps) = 0 \/ ps.offset + K(ps) * Width(ps) <= ps.out_len

\* Every column's array is of the type its field declares.
WellTyped(ps) ==
    /\ Len(ps.batch.columns) = Len(ps.schema)
    /\ \A j \in 1..Len(ps.schema) : ps.batch.columns[j].rt = ps.schema[j].dt

\* The bytes of row r of the call's batch, encoded alone by a new RowWriter.
AloneBytes(ps, r) ==
    get_row(write_row(RowWriter_new(ps.schema), r, ps.schema, ps.batch.columns).w)

\* The bytes of the slice handed to the call, at [a, b).
OutBytes(ps, a, b) == Slice(output, ps.out_lo + a, ps.out_lo + b)

WBPasses == {p \in DOMAIN pass : pass[p].call = "write_batch_unchecked"}
BenchPasses == {p \in DOMAIN pass : pass[p].call = "bench_write_batch"}

C3_TooSmallPanics ==
    \A p \in WBPasses :
       LET ps == pass[p] IN
       /\ ~Fits(ps) => ps.pc # "returned"
       /\ (Terminal(ps) /\ ~Fits(ps)) => ps.pc = "panicked"
       /\ Len(output) = Adjacent + ps.out_len + Adjacent
       /\ \A i \in 1..Len(output) :
             (i <= ps.out_lo \/ i > ps.out_lo + ps.out_len) => output[i] = 170

\* A call that panicked on its third row for lack of room, after two rows fitted.
C3_Witness ==
    \E p \in WBPasses :
       /\ pass[p].pc = "panicked" /\ WellTyped(pass[p]) /\ ~Fits(pass[p])
       /\ Len(pass[p].offsets) = 3

\* The rows whose bytes the call has copied into output so far.
Copied(ps) ==
    IF ps.pc \in {"write", "copy"} \/ (ps.pc = "panicked" /\ Len(ps.offsets) > 0)
    THEN Len(ps.offsets) - 1 ELSE Len(ps.offsets)

\* The end of the bytes the call has written so far.
WrittenEnd(ps) ==
    IF ps.pc = "advance" THEN ps.current_offset + ps.row_width
    ELSE ps.current_offset

\* C10: at every point of a call only bytes in [offset, end of the rows copied
\* so far) differ from what output held; that end is offset + K * row_width on
\* return.  An offset is recorded before its row is copied, the rows are
\* copied in row order, and after a panic for lack of room at row j the rows
\* before j are in output and no byte from row j's start offset on is changed.
C10_Frame ==
    \A p \in WBPasses :
       LET ps == pass[p] IN
       /\ \A i \in 1..Len(output) :
             (i <= ps.out_lo + ps.offset \/ i > ps.out_lo + WrittenEnd(ps))
                => output[i] = 170
       /\ (ps.pc = "returned" /\ K(ps) > 0) =>
             WrittenEnd(ps) = ps.offset + K(ps) * Width(ps)
       /\ ps.pc \in {"write", "copy"} =>
             /\ Len(ps.offsets) = ps.cur_row - ps.row_idx + 1
             /\ ps.offsets[Len(ps.offsets)] = ps.current_offset
       /\ \A i \in 1..Len(ps.offsets) :
             ps.offsets[i] = ps.offset + (i - 1) * Width(ps)
       /\ \A i \in 1..Copied(ps) :
             OutBytes(ps, ps.offsets[i], ps.offsets[i] + Width(ps))
                = AloneBytes(ps, ps.row_idx + i - 1)
       /\ (ps.pc = "panicked" /\ WellTyped(ps)) =>
             /\ Len(ps.offsets) > 0
             /\ WrittenEnd(ps) = ps.offsets[Len(ps.offsets)]
             /\ ~RangeOk(ps.out_len, WrittenEnd(ps), WrittenEnd(ps) + Width(ps))

\* A call that panicked for lack of room at its second row or later, with free
\* bytes left behind the rows it copied.
C10_Witness ==
    \E p \in WBPasses :
       /\ pass[p].pc = "panicked" /\ WellTyped(pass[p])
       /\ Len(pass[p].offsets) >= 2
       /\ pass[p].offset > 0
       /\ pass[p].current_offset < pass[p].out_len

\* Field i (0-based) of an encoded row: its bitmap bit and its value slot.
BitAt(row, i) == GetBit(At0(row, i \div 8), i % 8)
SlotOf(row, schema, i) ==
    LET off == At0(RowLayout_new(schema).field_offsets, i) IN
    Slice(row, off, off + TypeWidth(At0(schema, i).dt))

\* Whether the source column of field i is null at row r.
IsNull(ps, i, r) == ~At0(At0(ps.batch.columns, i).valid, r)

NullRoundTrip(ps, row, r) ==
    \A i \in 0..(Len(ps.schema) - 1) :
       /\ IsNull(ps, i, r) <=> ~BitAt(row, i)
       /\ IsNull(ps, i, r) =>
             SlotOf(row, ps.schema, i) = Zeros(TypeWidth(At0(ps.schema, i).dt))

\* C2: under a layout with a null bitmap, in every row write_row has encoded
\* into the reset writer of a batch call, and in every row write_batch_unchecked
\* has copied into output, field i is null in its column iff bit i of the
\* bitmap (least significant bit first) is 0, and the value slot of a null
\* field is all zero bytes.
C2_NullRoundTrip ==
    \A p \in WBPasses \cup BenchPasses :
       LET ps == pass[p] IN
       ~RowLayout_new(ps.schema).null_free =>
          /\ ps.pc = "copy" => NullRoundTrip(ps, get_row(ps.writer), ps.cur_row)
          /\ (ps.call = "write_batch_unchecked" /\ ps.pc = "returned") =>
                \A k \in 1..Len(ps.offsets) :
                   NullRoundTrip(ps,
                      OutBytes(ps, ps.offsets[k], ps.offsets[k] + Width(ps)),
                      ps.row_idx + k - 1)

\* A row just encoded with a null field and a non-null field, the row before it
\* having held a non-zero value where the null now is.
C2_Witness ==
    \E p \in WBPasses :
       LET ps == pass[p] IN
       /\ ps.pc = "copy" /\ ~RowLayout_new(ps.schema).null_free
       /\ ps.cur_row > ps.row_idx
       /\ \E i \in 0..(Len(ps.schema) - 1), j \in 0..(Len(ps.schema) - 1) :
             /\ IsNull(ps, i, ps.cur_row) /\ ~IsNull(ps, j, ps.cur_row)
             /\ SlotOf(AloneBytes(ps, ps.cur_row - 1), ps.schema, i)
                   # Zeros(TypeWidth(At0(ps.schema, i).dt))

\* C4: on every RowWriter, whatever was called on it (new, write_row, typed
\* setters, null-bit setters, reset), row_width is the layout's
\* fixed_part_width and get_row is that many bytes; every width write_row
\* returned, and every entry of bench_write_batch's lengths, is fixed_part_width.
C4_FixedWidth ==
    \A p \in DOMAIN pass :
       LET ps == pass[p] IN
       /\ ps.writer.row_width = ps.writer.layout.fixed_part_width
       /\ ps.writer.layout.fixed_part_width = Width(ps)
       /\ Len(get_row(ps.writer)) = Width(ps)
       /\ ps.pc \in {"copy", "advance", "reset"} => ps.row_width = Width(ps)
       /\ \A k \in 1..Len(ps.lengths) : ps.lengths[k] = Width(ps)

\* bench_write_batch returned the widths of two rows, one of them with a null
\* field and one without.
C4_Witness ==
    \E p \in BenchPasses :
       LET ps == pass[p] IN
       /\ ps.pc = "returned" /\ Len(ps.lengths) = 2
       /\ \E b1 \in 1..Len(Flat(ps)), b2 \in 1..Len(Flat(ps)) :
             /\ Flat(ps)[b1].num_rows = 1 /\ Flat(ps)[b2].num_rows = 1
             /\ \E j \in 1..Len(ps.schema) : ~Flat(ps)[b1].columns[j].valid[1]
             /\ \A j \in 1..Len(ps.schema) : Flat(ps)[b2].columns[j].valid[1]

\* C5: in a batch call the writer's buffer is all zero whenever a row is about
\* to be encoded, also after earlier rows were encoded and reset; and the
\* bytes write_row then leaves are the bytes a new RowWriter yields for that
\* row.
C5_Deterministic ==
    \A p \in WBPasses \cup BenchPasses :
       LET ps == pass[p] IN
       /\ ps.pc \in {"for", "push", "write", "for_batch", "for_row"} =>
             ps.writer.data = Zeros(Width(ps))
       /\ ps.pc \in {"copy", "advance"} =>
             get_row(ps.writer) = AloneBytes(ps, ps.cur_row)

\* A reused writer has just encoded a row identical to an earlier row of the
\* batch, with a different row in between.
C5_Witness ==
    \E p \in WBPasses :
       LET ps == pass[p] IN
       /\ ps.pc = "copy" /\ ps.row_idx = 0 /\ ps.cur_row = 2
       /\ AloneBytes(ps, 0) = AloneBytes(ps, 2)
       /\ AloneBytes(ps, 0) # AloneBytes(ps, 1)

\* The schema with every field declared nullable: its layout has the bitmap,
\* so write_row takes the branch with the null checks.
AsNullable(schema) == [i \in 1..Len(schema) |-> F(schema[i].dt, TRUE)]

\* The bytes of `row` under `schema` outside the bitmap and the value slots.
PaddingZero(row, schema) ==
    LET lay == RowLayout_new(schema) IN
    \A k \in 0..(Len(row) - 1) :
       (/\ k >= lay.null_width
        /\ \A i \in 0..(Len(schema) - 1) :
              ~(At0(lay.field_offsets, i) <= k
                /\ k < At0(lay.field_offsets, i) + TypeWidth(At0(schema, i).dt)))
       => At0(row, k) = 0

\* C6: a row encoded through the null-free branch of write_row holds, in each
\* field's slot, the bytes that the branch with null checks writes into that
\* field's slot for the same values; there the bitmap bit of every field is 1;
\* and outside the slots (and the bitmap) both rows are zero.
C6_NullFreeEquivalence ==
    \A p \in WBPasses \cup BenchPasses :
       LET ps == pass[p]
           ns == AsNullable(ps.schema)
           rn == write_row(RowWriter_new(ns), ps.cur_row, ns, ps.batch.columns)
       IN (ps.pc = "copy" /\ ps.writer.layout.null_free) =>
             /\ rn.ok
             /\ \A i \in 0..(Len(ps.schema) - 1) :
                   /\ SlotOf(get_row(ps.writer), ps.schema, i)
                         = SlotOf(get_row(rn.w), ns, i)
                   /\ BitAt(get_row(rn.w), i)
                   /\ SlotOf(get_row(ps.writer), ps.schema, i)
                         = ValueBytes(At0(ps.schema, i).dt,
                                      At0(At0(ps.batch.columns, i).vals, ps.cur_row))
             /\ PaddingZero(get_row(ps.writer), ps.schema)
             /\ PaddingZero(get_row(rn.w), ns)
             /\ \A k \in 0..(RowLayout_new(ns).null_width * 8 - 1) :
                   BitAt(get_row(rn.w), k) <=> k < Len(ns)

\* A null-free row of two fields has been encoded, neither field's bytes all zero.
C6_Witness ==
    \E p \in WBPasses :
       LET ps == pass[p] IN
       /\ ps.pc = "copy" /\ ps.writer.layout.null_free /\ Len(ps.schema) = 2
       /\ \A i \in 0..1 :
             SlotOf(get_row(ps.writer), ps.schema, i)
                # Zeros(TypeWidth(At0(ps.schema, i).dt))

\* The scenario of C7: schema [int32], null-free, the rows 1, 2, 3, a slice of
\* n bytes, offset 0, from row 0.
Scenario(ps, n) ==
    /\ ps.call = "write_batch_unchecked"
    /\ ps.schema = <<F("Int32", FALSE)>>
    /\ ps.batch = BatchOf(Cases[1], <<1, 2, 3>>)
    /\ ps.out_len = n /\ ps.offset = 0 /\ ps.row_idx = 0

\* C7 as stated: on a 12-byte output the call returns offsets [0, 4, 8] and
\* leaves 01 00 00 00 02 00 00 00 03 00 00 00.
C7_AsStated ==
    \A p \in WBPasses :
       LET ps == pass[p] IN
       (Scenario(ps, 12) /\ Terminal(ps)) =>
          /\ ps.pc = "returned"
          /\ ps.offsets = <<0, 4, 8>>
          /\ OutBytes(ps, 0, 12) = <<1, 0, 0, 0, 2, 0, 0, 0, 3, 0, 0, 0>>

\* C7 amended: the row of this schema is 8 bytes wide; on a 24-byte output the
\* call returns offsets [0, 8, 16] and leaves each value in 4 little-endian
\* bytes followed by 4 zero bytes; on a 12-byte output it panics at the second
\* row, the first row copied and the last 4 bytes untouched.
C7_WordAligned ==
    \A p \in WBPasses :
       LET ps == pass[p] IN
       /\ Scenario(ps, 24) => Width(ps) = 8
       /\ (Scenario(ps, 24) /\ Terminal(ps)) =>
             /\ ps.pc = "returned"
             /\ ps.offsets = <<0, 8, 16>>
             /\ OutBytes(ps, 0, 24) =
                   <<1, 0, 0, 0, 0, 0, 0, 0, 2, 0, 0, 0, 0, 0, 0, 0,
                     3, 0, 0, 0, 0, 0, 0, 0>>
       /\ (Scenario(ps, 12) /\ Terminal(ps)) =>
             /\ ps.pc = "panicked"
             /\ ps.offsets = <<0, 8>>
             /\ OutBytes(ps, 0, 12) =
                   <<1, 0, 0, 0, 0, 0, 0, 0, 170, 170, 170, 170>>

\* The scenario's call on a 24-byte output has returned.
C7_Witness ==
    \E p \in WBPasses : Scenario(pass[p], 24) /\ pass[p].pc = "returned"

\* Some row of some batch has a non-null value in a date or decimal field whose
\* column is an array of another type.
HasMismatchedRow(ps) ==
    \E b \in 1..Len(Flat(ps)) :
    \E j \in 1..Min(Len(ps.schema), Len(Flat(ps)[b].columns)) :
    \E r \in 1..Flat(ps)[b].num_rows :
       /\ ps.schema[j].dt \in {"Date32", "Date64", "Decimal128"}
       /\ Flat(ps)[b].columns[j].rt # ps.schema[j].dt
       /\ (RowLayout_new(ps.schema).null_free \/ Flat(ps)[b].columns[j].valid[r])

RECURSIVE TotalRows(_)
TotalRows(bs) == IF bs = <<>> THEN 0 ELSE Head(bs).num_rows + TotalRows(Tail(bs))

\* C8 as stated: bench_write_batch ends by returning; with a mismatched row it
\* returns an error value, otherwise one width per row of all batches.
C8_AsStated ==
    \A p \in BenchPasses :
       LET ps == pass[p] IN
       Terminal(ps) =>
          /\ ps.pc = "returned"
          /\ IF HasMismatchedRow(ps) THEN ps.result = "Err"
             ELSE ps.result = "Ok" /\ Len(ps.lengths) = TotalRows(Flat(ps))

\* The state of call ps on entry.
Entry(ps) ==
    NewPass(ps.call, ps.schema, ps.batch, ps.batches, ps.out_lo, ps.out_len,
            ps.offset, ps.row_idx)

\* C9: when two passes on disjoint slices of one region have both ended, after
\* any interleaving of their steps, the region, the offsets of each pass and
\* the way each ended are those of running pass 1 to its end and then pass 2,
\* and of running pass 2 and then pass 1.
C9_Interleaving ==
    (DOMAIN pass = {1, 2} /\ \A p \in {1, 2} : Terminal(pass[p])) =>
       LET a1 == write_batch_unchecked(Entry(pass[1]), InitialOutput(Len(output)))
           a2 == write_batch_unchecked(Entry(pass[2]), a1.out)
           b2 == write_batch_unchecked(Entry(pass[2]), InitialOutput(Len(output)))
           b1 == write_batch_unchecked(Entry(pass[1]), b2.out)
       IN /\ output = a2.out /\ output = b1.out
          /\ pass[1] = a1.ps /\ pass[2] = a2.ps
          /\ pass[1].offsets = b1.ps.offsets /\ pass[2].offsets = b2.ps.offsets

\* Both passes have returned, one after two rows and the other after a row.
C9_Witness ==
    /\ DOMAIN pass = {1, 2}
    /\ \A p \in {1, 2} : pass[p].pc = "returned"
    /\ Len(pass[1].offsets) + Len(pass[2].offsets) >= 3
    /\ Len(pass[1].offsets) >= 1 /\ Len(pass[2].offsets) >= 1

====
